---- MODULE Spec2Model ----
(***************************************************************************)
(* A model of rtlamr's parse package (parser registry, Data, LogMessage,   *)
(* FilterChain) and of the SCM protocol parser (scm.Parser.Parse, NewSCM). *)
(*                                                                         *)
(* Go strings are modelled as sequences of one-character strings, byte     *)
(* slices as sequences of 0..255.  A Go slice expression s[a:b] is         *)
(* SubSeq(s, a+1, b).                                                      *)
(***************************************************************************)
EXTENDS Integers, Sequences, FiniteSets, TLC

VARIABLES
    \* scm.Parser.Parse
    pkts,       \* what p.Decoder.Slice(indices) returned, in detection order
    pi,         \* position of the range loop over pkts (packets consumed)
    seen,       \* the per-call map seen[string(pkt)]
    msgs,       \* the msgs result slice
    src,        \* history: src[k] is the index in pkts that produced msgs[k]
    ppc,        \* "idle" | "loop" | "returned"
    \* parse.Data
    dOp,        \* last Data constructor applied: "none" | "bytes" | "bits" | "roundtrip"
    dIn,        \* its argument
    dOrig,      \* the byte slice a round trip started from
    dOut,       \* the Data it returned (or panicked)
    \* parse registry
    parserMutex, \* 0 when unlocked, else the goroutine holding it
    parsers,     \* the map name -> NewParserFunc
    gpc,         \* per goroutine: position inside Register / NewParser
    gcall,       \* per goroutine: the call in progress
    gpre,        \* per goroutine: the registry as it was when the lock was taken
    gret,        \* per goroutine: what the call in progress is about to return
    calls,       \* number of calls started so far
    hist,        \* history: the finished calls, in order of completion
    \* parse.FilterChain
    fc,         \* the chain
    fOp,        \* "none" | "add" | "match"
    fMsg,       \* the message of the last Match
    fRet,       \* the result of the last Match
    fInvoked,   \* history: the filters the last Match invoked, in order
    \* parse.LogMessage
    lm,         \* the LogMessage
    lOp,        \* "none" | "new" | "sanitize" | "record"
    lRec,       \* what the last Record() returned
    lRaw,       \* history: the RSSI the LogMessage was built with
    lSan        \* history: Sanitize was called since the LogMessage was built

parseVars == <<pkts, pi, seen, msgs, src, ppc>>
dataVars == <<dOp, dIn, dOrig, dOut>>
regVars == <<parserMutex, parsers, gpc, gcall, gpre, gret, calls, hist>>
filterVars == <<fc, fOp, fMsg, fRet, fInvoked>>
logVars == <<lm, lOp, lRec, lRaw, lSan>>
vars == <<parseVars, dataVars, regVars, filterVars, logVars>>

\* what a step of one component leaves alone: the other components
ParseOnly == UNCHANGED <<dataVars, regVars, filterVars, logVars>>
DataOnly == UNCHANGED <<parseVars, regVars, filterVars, logVars>>
RegOnly == UNCHANGED <<parseVars, dataVars, filterVars, logVars>>
FilterOnly == UNCHANGED <<parseVars, dataVars, regVars, logVars>>
LogOnly == UNCHANGED <<parseVars, dataVars, regVars, filterVars>>

-----------------------------------------------------------------------------
(* Bounds of the model. *)

\* packets the slicer returns for one Parse call
MaxPkts == 3
\* length of the byte slices given to NewDataFromBytes (sampled byte values)
MaxLen == 2
\* length of the bit-strings given to NewDataFromBits
MaxBitLen == 9
\* goroutines using the registry
NumProcs == 2
\* Register / NewParser calls in one run
MaxCalls == 3
\* filters added to a chain
MaxChain == 3

-----------------------------------------------------------------------------
(* Integer helpers. *)

RECURSIVE Pow(_, _)
Pow(b, n) == IF n = 0 THEN 1 ELSE b * Pow(b, n - 1)

\* bit i (0 = least significant) of x
BitOf(x, i) == (x \div Pow(2, i)) % 2

RECURSIVE XorN(_, _, _)
\* a ^ b on n-bit unsigned values
XorN(a, b, n) ==
    IF n = 0 THEN 0
    ELSE ((a + b) % 2) + 2 * XorN(a \div 2, b \div 2, n - 1)

RECURSIVE Concat(_)
\* the concatenation of a sequence of sequences
Concat(ss) == IF ss = <<>> THEN <<>> ELSE Head(ss) \o Concat(Tail(ss))

RECURSIVE SeqsUpTo(_, _)
\* every sequence over S of length at most n
SeqsUpTo(S, n) ==
    IF n = 0 THEN {<<>>}
    ELSE LET shorter == SeqsUpTo(S, n - 1)
         IN  shorter \cup {Append(s, x) : s \in shorter, x \in S}

Range(s) == {s[i] : i \in DOMAIN s}

-----------------------------------------------------------------------------
(* strconv and fmt as the code uses them. *)

Digits == <<"0", "1", "2", "3", "4", "5", "6", "7", "8", "9",
            "a", "b", "c", "d", "e", "f">>

RECURSIVE FormatUint(_, _)
\* strconv.FormatUint(n, base): no leading zeros, lower-case digits
FormatUint(n, base) ==
    IF n < base THEN <<Digits[n + 1]>>
    ELSE Append(FormatUint(n \div base, base), Digits[(n % base) + 1])

\* strconv.FormatInt(n, 10)
FormatInt(n) == IF n < 0 THEN <<"-">> \o FormatUint(-n, 10) ELSE FormatUint(n, 10)

\* fmt.Sprintf("%08b", b) for a byte b: eight binary digits, zero padded
Sprintf08b(b) == [j \in 1..8 |-> IF BitOf(b, 8 - j) = 1 THEN "1" ELSE "0"]

RECURSIVE BinValue(_)
BinValue(s) ==
    IF s = <<>> THEN 0
    ELSE 2 * BinValue(SubSeq(s, 1, Len(s) - 1)) + (IF s[Len(s)] = "1" THEN 1 ELSE 0)

\* strconv.ParseUint(s, 2, bitSize), the error dropped as the callers drop it:
\* 0 on a syntax error (empty, or a character that is no binary digit), the
\* largest bitSize-bit value on a range error.
ParseUint2(s, bitSize) ==
    IF s = <<>> \/ \E i \in DOMAIN s : s[i] \notin {"0", "1"} THEN 0
    ELSE IF Len(s) > bitSize /\ BinValue(s) >= Pow(2, bitSize) THEN Pow(2, bitSize) - 1
    ELSE BinValue(s)

-----------------------------------------------------------------------------
(* parse.Data *)

Data(bits, bytes, panicked) == [Bits |-> bits, Bytes |-> bytes, panicked |-> panicked]

NoData == Data(<<>>, <<>>, FALSE)

\* a faulty variant: the bits of each byte least significant first
NewDataFromBytesLSB(data) ==
    Data(Concat([i \in DOMAIN data |-> [j \in 1..8 |->
            IF BitOf(data[i], j - 1) = 1 THEN "1" ELSE "0"]]), data, FALSE)

NewDataFromBytes(data) ==
    Data(Concat([i \in DOMAIN data |-> Sprintf08b(data[i])]), data, FALSE)

RECURSIVE BitsLoop(_, _, _)
\* the loop of NewDataFromBits from idx on; d.Bits[idx:idx+8] panics (slice
\* bounds out of range) when fewer than 8 characters are left
BitsLoop(bits, idx, bytes) ==
    IF idx >= Len(bits) THEN Data(bits, bytes, FALSE)
    ELSE IF idx + 8 > Len(bits) THEN Data(<<>>, <<>>, TRUE)
    ELSE BitsLoop(bits, idx + 8,
            [bytes EXCEPT ![(idx \div 8) + 1] =
                ParseUint2(SubSeq(bits, idx + 1, idx + 8), 8) % 256])

NewDataFromBits(data) ==
    BitsLoop(data, 0, [i \in 1..((Len(data) + 7) \div 8) |-> 0])

\* every byte value alone, and short slices over a few byte values
ByteSamples == {0, 1, 127, 128, 170, 255}

\* the 12-byte SCM packets used below, as NewDataFromBytes arguments too
V1 == <<249, 83, 6, 18, 0, 48, 57, 1, 226, 64, 15, 53>>
V2 == <<249, 83, 2, 92, 0, 0, 42, 188, 97, 78, 45, 152>>

ByteInputs ==
    {<<b>> : b \in 0..255} \cup SeqsUpTo(ByteSamples, MaxLen) \cup {V1, V2}

BitInputs == SeqsUpTo({"0", "1"}, MaxBitLen)

DataInit ==
    /\ dOp = "none"
    /\ dIn = <<>>
    /\ dOrig = <<>>
    /\ dOut = NoData

DoFromBytes ==
    /\ DataOnly
    /\ dOp = "none"
    /\ \E b \in ByteInputs :
        /\ dIn' = b
        /\ dOrig' = b
        /\ dOut' = NewDataFromBytes(b)
    /\ dOp' = "bytes"

DoFromBits ==
    /\ DataOnly
    /\ dOp = "none"
    /\ \E s \in BitInputs :
        /\ dIn' = s
        /\ dOut' = NewDataFromBits(s)
    /\ dOrig' = <<>>
    /\ dOp' = "bits"

\* NewDataFromBits(NewDataFromBytes(b).Bits)
DoRoundTrip ==
    /\ DataOnly
    /\ dOp = "bytes"
    /\ dIn' = dOut.Bits
    /\ dOut' = NewDataFromBits(dOut.Bits)
    /\ dOp' = "roundtrip"
    /\ UNCHANGED dOrig

DataNext == DoFromBytes \/ DoFromBits \/ DoRoundTrip

-----------------------------------------------------------------------------
(* crc.CRC, as scm.NewParser builds it: crc.NewCRC("BCH", 0, 0x6F63, 0). *)

\* 0x6F63
Poly == 28515
CrcInit == 0
CrcFinalXor == 0

RECURSIVE TableEntry(_, _)
\* k shifts of the MSB-first division of c by Poly
TableEntry(c, k) ==
    IF k = 0 THEN c
    ELSE TableEntry(IF c >= 32768 THEN XorN((c * 2) % 65536, Poly, 16)
                    ELSE (c * 2) % 65536, k - 1)

crcTable == [b \in 0..255 |-> TableEntry(b * 256, 8)]

RECURSIVE CrcLoop(_, _)
CrcLoop(crc, data) ==
    IF data = <<>> THEN crc
    ELSE CrcLoop(XorN(crcTable[XorN(crc \div 256, Head(data), 8)],
                      (crc * 256) % 65536, 16), Tail(data))

\* CRC.Checksum(data): 0 for a valid packet
Checksum(data) == XorN(CrcLoop(CrcInit, data), CrcFinalXor, 16)

-----------------------------------------------------------------------------
(* scm.Parser.Parse and scm.NewSCM *)

\* the fixed wire length Parse accepts
PacketBytes == 12

SCM(id, type, phy, enc, consumption, checksum) ==
    [ID |-> id, Type |-> type, TamperPhy |-> phy, TamperEnc |-> enc,
     Consumption |-> consumption, ChecksumVal |-> checksum]

NewSCM(data) ==
    SCM(ParseUint2(SubSeq(data.Bits, 22, 23) \o SubSeq(data.Bits, 57, 80), 26),
        ParseUint2(SubSeq(data.Bits, 27, 30), 4) % 256,
        ParseUint2(SubSeq(data.Bits, 25, 26), 2) % 256,
        ParseUint2(SubSeq(data.Bits, 31, 32), 2) % 256,
        ParseUint2(SubSeq(data.Bits, 33, 56), 24),
        ParseUint2(SubSeq(data.Bits, 81, 96), 16) % 65536)

\* SCM.Record()
SCMRecord(scm) ==
    << FormatUint(scm.ID, 10),
       FormatUint(scm.Type, 10),
       <<"0", "x">> \o FormatUint(scm.TamperPhy, 16),
       <<"0", "x">> \o FormatUint(scm.TamperEnc, 16),
       FormatUint(scm.Consumption, 10),
       <<"0", "x">> \o FormatUint(scm.ChecksumVal, 16) >>

\* a faulty variant: the seen map is never consulted
AlreadySeenNever(pkt) == FALSE

\* seen[string(pkt)]
AlreadySeen(pkt) == pkt \in seen

\* len(data.Bytes) != 12
WrongLength(data) == Len(data.Bytes) # PacketBytes

\* a faulty variant: the test inverted
ChecksumFailsInverted(data) == Checksum(SubSeq(data.Bytes, 3, 12)) = 0

\* p.Checksum(data.Bytes[2:12]) != 0
ChecksumFails(data) == Checksum(SubSeq(data.Bytes, 3, 12)) # 0

\* a faulty variant: the sentinel test dropped
InvalidIDNever(scm) == FALSE

\* scm.ID == 0
InvalidID(scm) == scm.ID = 0

\* pkt with bit k (0 = the first bit on the wire) inverted
Flip(pkt, k) ==
    [pkt EXCEPT ![(k \div 8) + 1] = XorN(@, Pow(2, 7 - (k % 8)), 8)]

\* V1 with another second byte: another byte sequence, the same SCM fields
V1h == [V1 EXCEPT ![2] = 82]
\* a valid checksum over a record whose meter ID is 0
ZV == <<249, 83, 0, 28, 0, 1, 0, 0, 0, 0, 174, 123>>
Z0 == <<0, 0, 0, 0, 0, 0, 0, 0, 0, 0, 0, 0>>
\* a packet one byte short, and one a byte long
Short == SubSeq(V1, 1, 11)
Long == Append(V2, 0)

BasePackets == {V1, V2, V1h, ZV, Z0, Short, Long}

\* the bits the checksum covers: bytes 2..11
PayloadBits == 16..95

\* the streams of valid packets in which one payload bit of one packet is wrong
OneBitErrors ==
    UNION {{[s EXCEPT ![i] = Flip(s[i], k)] : i \in DOMAIN s, k \in PayloadBits} :
            s \in SeqsUpTo({V1, V2}, MaxPkts)}

\* V1 and V2 with one payload bit inverted
OneBitMutations == {Flip(v, k) : v \in {V1, V2}, k \in PayloadBits}

\* what Decoder.Slice may return for one block: any packets, repeats included
SliceOutputs == SeqsUpTo(BasePackets, MaxPkts) \cup OneBitErrors

ParseInit ==
    /\ pkts = <<>>
    /\ pi = 0
    /\ seen = {}
    /\ msgs = <<>>
    /\ src = <<>>
    /\ ppc = "idle"

\* Parse is entered: seen := make(map), the range over p.Decoder.Slice(indices)
ParseCall ==
    /\ ParseOnly
    /\ ppc = "idle"
    /\ pkts' \in SliceOutputs
    /\ pi' = 0
    /\ seen' = {}
    /\ msgs' = <<>>
    /\ src' = <<>>
    /\ ppc' = "loop"

InLoop == ppc = "loop" /\ pi < Len(pkts)

pkt == pkts[pi + 1]

\* if seen[s] { continue }
ParseDuplicate ==
    /\ ParseOnly
    /\ InLoop
    /\ AlreadySeen(pkt)
    /\ pi' = pi + 1
    /\ UNCHANGED <<pkts, seen, msgs, src, ppc>>

\* seen[s] = true, then one of the three bail-outs
ParseDrop ==
    /\ ParseOnly
    /\ InLoop
    /\ ~AlreadySeen(pkt)
    /\ LET data == NewDataFromBytes(pkt)
       IN  \/ WrongLength(data)
           \/ ~WrongLength(data) /\ ChecksumFails(data)
           \/ ~WrongLength(data) /\ ~ChecksumFails(data) /\ InvalidID(NewSCM(data))
    /\ seen' = seen \cup {pkt}
    /\ pi' = pi + 1
    /\ UNCHANGED <<pkts, msgs, src, ppc>>

\* msgs = append(msgs, scm)
ParseAppend ==
    /\ ParseOnly
    /\ InLoop
    /\ ~AlreadySeen(pkt)
    /\ LET data == NewDataFromBytes(pkt)
       IN  /\ ~WrongLength(data)
           /\ ~ChecksumFails(data)
           /\ ~InvalidID(NewSCM(data))
           /\ msgs' = Append(msgs, NewSCM(data))
    /\ src' = Append(src, pi + 1)
    /\ seen' = seen \cup {pkt}
    /\ pi' = pi + 1
    /\ UNCHANGED <<pkts, ppc>>

\* the range loop is over: return
ParseReturn ==
    /\ ParseOnly
    /\ ppc = "loop"
    /\ pi = Len(pkts)
    /\ ppc' = "returned"
    /\ UNCHANGED <<pkts, pi, seen, msgs, src>>

ParseNext == ParseCall \/ ParseDuplicate \/ ParseDrop \/ ParseAppend \/ ParseReturn

-----------------------------------------------------------------------------
(* The parser registry: parserMutex, parsers, Register, NewParser.         *)
(* Every goroutine runs its calls one statement group at a time; a panic   *)
(* unwinds through the deferred Unlock and ends the call.  What the caller *)
(* does with the panic (recover, or let the process die) is not modelled:  *)
(* the goroutines that go on are a superset of what a dying process does.  *)

Procs == 1..NumProcs

Names == {"scm", "idm"}

\* a nil NewParserFunc
NilFn == "nil"

\* the constructors packages register
Constructors == {"scm.NewParser", "idm.NewParser"}

\* the (symbolLength, decimation) arguments of NewParser
ParserArgs == {<<72, 1>>}

\* at: how many calls had finished when this one began
NoCall == [op |-> "none", name |-> "", fn |-> NilFn, args |-> <<0, 0>>, at |-> 0]

NoRet == [kind |-> "none"]

\* parserFn(symbolLength, decimation)
Construct(fn, args) == [ctor |-> fn, symbolLength |-> args[1], decimation |-> args[2]]

\* fmt.Errorf("invalid message type: %q\n", name)
UnknownProtocol(name) == [kind |-> "error", msg |-> <<"invalid message type: ", name>>]

EmptyMap == [n \in {} |-> NilFn]

RegInit ==
    /\ parserMutex = 0
    /\ parsers = EmptyMap
    /\ gpc = [p \in Procs |-> "idle"]
    /\ gcall = [p \in Procs |-> NoCall]
    /\ gpre = [p \in Procs |-> EmptyMap]
    /\ gret = [p \in Procs |-> NoRet]
    /\ calls = 0
    /\ hist = <<>>

\* a goroutine calls Register(name, parserFn)
CallRegister(p) ==
    /\ RegOnly
    /\ gpc[p] = "idle"
    /\ calls < MaxCalls
    /\ \E name \in Names, fn \in Constructors \cup {NilFn} :
        gcall' = [gcall EXCEPT ![p] =
                    [op |-> "Register", name |-> name, fn |-> fn, args |-> <<0, 0>>,
                     at |-> Len(hist)]]
    /\ gpc' = [gpc EXCEPT ![p] = "lock"]
    /\ calls' = calls + 1
    /\ UNCHANGED <<parserMutex, parsers, gpre, gret, hist>>

\* a goroutine calls NewParser(name, symbolLength, decimation)
CallNewParser(p) ==
    /\ RegOnly
    /\ gpc[p] = "idle"
    /\ calls < MaxCalls
    /\ \E name \in Names, args \in ParserArgs :
        gcall' = [gcall EXCEPT ![p] =
                    [op |-> "NewParser", name |-> name, fn |-> NilFn, args |-> args,
                     at |-> Len(hist)]]
    /\ gpc' = [gpc EXCEPT ![p] = "lock"]
    /\ calls' = calls + 1
    /\ UNCHANGED <<parserMutex, parsers, gpre, gret, hist>>

\* a faulty variant: Lock returns whether or not the mutex is held
MutexFreeAlways == TRUE

\* sync.Mutex: Lock returns only once the mutex is free
MutexFree == parserMutex = 0

\* parserMutex.Lock()
Lock(p) ==
    /\ RegOnly
    /\ gpc[p] = "lock"
    /\ MutexFree
    /\ parserMutex' = p
    /\ gpre' = [gpre EXCEPT ![p] = parsers]
    /\ gpc' = [gpc EXCEPT ![p] = "body"]
    /\ UNCHANGED <<parsers, gcall, gret, calls, hist>>

\* parserFn == nil
IsNil(fn) == fn = NilFn

\* a faulty variant: the duplicate test dropped
IsDupNever(name) == FALSE

\* _, dup := parsers[name]
IsDup(name) == name \in DOMAIN parsers

\* Register's two tests; either panics
RegisterCheck(p) ==
    /\ RegOnly
    /\ gpc[p] = "body"
    /\ gcall[p].op = "Register"
    /\ \/ /\ IsNil(gcall[p].fn)
          /\ gret' = [gret EXCEPT ![p] =
                [kind |-> "panic", msg |-> <<"parser: new parser func is nil">>]]
          /\ gpc' = [gpc EXCEPT ![p] = "unlock"]
       \/ /\ ~IsNil(gcall[p].fn)
          /\ IsDup(gcall[p].name)
          /\ gret' = [gret EXCEPT ![p] =
                [kind |-> "panic",
                 msg |-> <<"parser: parser already registered (", gcall[p].name, ")">>]]
          /\ gpc' = [gpc EXCEPT ![p] = "unlock"]
       \/ /\ ~IsNil(gcall[p].fn)
          /\ ~IsDup(gcall[p].name)
          /\ gpc' = [gpc EXCEPT ![p] = "store"]
          /\ UNCHANGED gret
    /\ UNCHANGED <<parserMutex, parsers, gcall, gpre, calls, hist>>

\* m[name] = fn on a Go map
MapStore(m, name, fn) ==
    [n \in DOMAIN m \cup {name} |-> IF n = name THEN fn ELSE m[n]]

\* parsers[name] = parserFn
RegisterStore(p) ==
    /\ RegOnly
    /\ gpc[p] = "store"
    /\ parsers' = MapStore(parsers, gcall[p].name, gcall[p].fn)
    /\ gret' = [gret EXCEPT ![p] = [kind |-> "ok"]]
    /\ gpc' = [gpc EXCEPT ![p] = "unlock"]
    /\ UNCHANGED <<parserMutex, gcall, gpre, calls, hist>>

\* parsers[name] read from a Go map: the zero value when the key is missing
MapGet(m, name) == IF name \in DOMAIN m THEN m[name] ELSE NilFn

\* a faulty variant: an unknown name yields a parser built by a nil constructor
LookupAlways(name) == TRUE

\* parserFn, exists := parsers[name]
Lookup(name) == name \in DOMAIN parsers

\* the body of NewParser
NewParserBody(p) ==
    /\ RegOnly
    /\ gpc[p] = "body"
    /\ gcall[p].op = "NewParser"
    /\ gret' = [gret EXCEPT ![p] =
            IF Lookup(gcall[p].name)
            THEN [kind |-> "parser",
                  parser |-> Construct(MapGet(parsers, gcall[p].name), gcall[p].args)]
            ELSE UnknownProtocol(gcall[p].name)]
    /\ gpc' = [gpc EXCEPT ![p] = "unlock"]
    /\ UNCHANGED <<parserMutex, parsers, gcall, gpre, calls, hist>>

\* the deferred parserMutex.Unlock(), and the call ends
Unlock(p) ==
    /\ RegOnly
    /\ gpc[p] = "unlock"
    /\ parserMutex' = 0
    /\ gpc' = [gpc EXCEPT ![p] = "idle"]
    /\ hist' = Append(hist, [call |-> gcall[p], ret |-> gret[p],
                             pre |-> gpre[p], post |-> parsers])
    /\ gcall' = [gcall EXCEPT ![p] = NoCall]
    /\ gret' = [gret EXCEPT ![p] = NoRet]
    /\ gpre' = [gpre EXCEPT ![p] = EmptyMap]
    /\ UNCHANGED <<parsers, calls>>

RegNext ==
    \E p \in Procs :
        \/ CallRegister(p)
        \/ CallNewParser(p)
        \/ Lock(p)
        \/ RegisterCheck(p)
        \/ RegisterStore(p)
        \/ NewParserBody(p)
        \/ Unlock(p)

-----------------------------------------------------------------------------
(* parse.FilterChain *)

\* the Message methods the filters read
FilterMessages ==
    [MsgType : {"SCM", "IDM"}, MeterID : {0, 5}, MeterType : {7, 12}]

\* MessageFilter implementations: by message type, by meter ID, by meter type
Filters == {"TypeSCM", "IDPositive", "MeterType12"}

\* filter.Filter(msg)
Filter(f, msg) ==
    CASE f = "TypeSCM" -> msg.MsgType = "SCM"
      [] f = "IDPositive" -> msg.MeterID > 0
      [] f = "MeterType12" -> msg.MeterType = 12

RECURSIVE MatchLoopAll(_, _, _, _)
\* a faulty variant: the loop goes on after a filter rejected
MatchLoopAll(chain, i, msg, invoked) ==
    IF i > Len(chain)
    THEN [ret |-> \A k \in DOMAIN chain : Filter(chain[k], msg), invoked |-> invoked]
    ELSE MatchLoopAll(chain, i + 1, msg, Append(invoked, chain[i]))

RECURSIVE MatchLoop(_, _, _, _)
\* for _, filter := range fc { if !filter.Filter(msg) { return false } }; return true
MatchLoop(chain, i, msg, invoked) ==
    IF i > Len(chain) THEN [ret |-> TRUE, invoked |-> invoked]
    ELSE IF ~Filter(chain[i], msg)
         THEN [ret |-> FALSE, invoked |-> Append(invoked, chain[i])]
         ELSE MatchLoop(chain, i + 1, msg, Append(invoked, chain[i]))

\* FilterChain.Match
Match(chain, msg) ==
    IF Len(chain) = 0 THEN [ret |-> TRUE, invoked |-> <<>>]
    ELSE MatchLoop(chain, 1, msg, <<>>)

FilterInit ==
    /\ fc = <<>>
    /\ fOp = "none"
    /\ fMsg = [MsgType |-> "SCM", MeterID |-> 0, MeterType |-> 7]
    /\ fRet = TRUE
    /\ fInvoked = <<>>

\* fc.Add(filter)
FilterAdd ==
    /\ FilterOnly
    /\ Len(fc) < MaxChain
    /\ \E f \in Filters : fc' = Append(fc, f)
    /\ fOp' = "add"
    /\ UNCHANGED <<fMsg, fRet, fInvoked>>

\* fc.Match(msg): the receiver is a copy of the slice header, the chain stays
FilterMatch ==
    /\ FilterOnly
    /\ \E msg \in FilterMessages :
        /\ fMsg' = msg
        /\ fRet' = Match(fc, msg).ret
        /\ fInvoked' = Match(fc, msg).invoked
    /\ fOp' = "match"
    /\ UNCHANGED fc

FilterNext == FilterAdd \/ FilterMatch

-----------------------------------------------------------------------------
(* parse.LogMessage, Timestamp, RSSI *)

\* an RSSI (float64) is an infinity, or sign * (milli + sub / 10^7) / 1000
Finite(neg, milli, sub) == [kind |-> "finite", neg |-> neg, milli |-> milli, sub |-> sub]
NegInf == [kind |-> "-Inf", neg |-> TRUE, milli |-> 0, sub |-> 0]
PosInf == [kind |-> "+Inf", neg |-> FALSE, milli |-> 0, sub |-> 0]

\* const QuantNoise8bit = -48.1647993062
QuantNoise8bit == Finite(TRUE, 48164, 7993062)

\* n in decimal, zero padded to w digits
RECURSIVE Pad(_, _)
Pad(n, w) == IF w = 0 THEN <<>> ELSE Append(Pad(n \div 10, w - 1), Digits[(n % 10) + 1])

RECURSIVE TrimZeros(_)
TrimZeros(s) ==
    IF s # <<>> /\ s[Len(s)] = "0" THEN TrimZeros(SubSeq(s, 1, Len(s) - 1)) ELSE s

\* strconv.FormatFloat(f, 'f', 3, 64): three decimals, rounded to nearest
\* (ties to even), the sign kept on a negative zero
FormatFloat3(f) ==
    IF f.kind = "-Inf" THEN <<"-", "I", "n", "f">>
    ELSE IF f.kind = "+Inf" THEN <<"+", "I", "n", "f">>
    ELSE LET up == f.sub > 5000000 \/ (f.sub = 5000000 /\ f.milli % 2 = 1)
             m == IF up THEN f.milli + 1 ELSE f.milli
         IN  (IF f.neg THEN <<"-">> ELSE <<>>)
             \o FormatUint(m \div 1000, 10) \o <<".">> \o Pad(m % 1000, 3)

\* RSSI.String()
RSSIString(rssi) == FormatFloat3(rssi)

\* RSSI.Sanitize(): math.IsInf(rssi, -1) is replaced by the noise floor
Sanitize(rssi) == IF rssi.kind = "-Inf" THEN QuantNoise8bit ELSE rssi

\* a wall-clock time in UTC
Time(Y, M, D, h, m, sec, nsec) ==
    [Y |-> Y, M |-> M, D |-> D, h |-> h, m |-> m, sec |-> sec, nsec |-> nsec]

\* Time.Format(time.RFC3339Nano): the fraction without its trailing zeros,
\* left out when it is zero
FormatRFC3339Nano(t) ==
    Pad(t.Y, 4) \o <<"-">> \o Pad(t.M, 2) \o <<"-">> \o Pad(t.D, 2) \o <<"T">>
    \o Pad(t.h, 2) \o <<":">> \o Pad(t.m, 2) \o <<":">> \o Pad(t.sec, 2)
    \o (IF t.nsec = 0 THEN <<>> ELSE <<".">> \o TrimZeros(Pad(t.nsec, 9)))
    \o <<"Z">>

LogMessage(t, offset, length, rssi, message) ==
    [Time |-> t, Offset |-> offset, Length |-> length, RSSI |-> rssi, Message |-> message]

\* a faulty variant: the length before the offset
LogRecordSwapped(msg) ==
    << FormatRFC3339Nano(msg.Time), FormatInt(msg.Length), FormatInt(msg.Offset),
       RSSIString(msg.RSSI) >> \o SCMRecord(msg.Message)

\* LogMessage.Record()
LogRecord(msg) ==
    << FormatRFC3339Nano(msg.Time), FormatInt(msg.Offset), FormatInt(msg.Length),
       RSSIString(msg.RSSI) >> \o SCMRecord(msg.Message)

LogTimes ==
    { Time(2015, 3, 9, 7, 5, 0, 0),
      Time(2015, 12, 31, 23, 59, 59, 120000000),
      Time(2016, 1, 2, 15, 4, 5, 999999999) }

LogOffsets == {0, 4096, 1234567}

LogLengths == {0, 8192}

LogRSSIs ==
    { NegInf, PosInf, QuantNoise8bit, Finite(TRUE, 12345, 6000000),
      Finite(FALSE, 3250, 0), Finite(TRUE, 0, 4000000), Finite(FALSE, 999, 5000000) }

LogMessages == {NewSCM(NewDataFromBytes(V1)), NewSCM(NewDataFromBytes(V2))}

LogInit ==
    /\ lm = LogMessage(Time(2015, 3, 9, 7, 5, 0, 0), 0, 0, Finite(FALSE, 0, 0),
                       NewSCM(NewDataFromBytes(V1)))
    /\ lOp = "none"
    /\ lRec = <<>>
    /\ lRaw = Finite(FALSE, 0, 0)
    /\ lSan = FALSE

\* the caller fills in a LogMessage
LogNew ==
    /\ LogOnly
    /\ \E t \in LogTimes, o \in LogOffsets, l \in LogLengths, r \in LogRSSIs,
          m \in LogMessages :
        /\ lm' = LogMessage(t, o, l, r, m)
        /\ lRaw' = r
    /\ lOp' = "new"
    /\ lSan' = FALSE
    /\ lRec' = <<>>

\* msg.RSSI.Sanitize()
LogSanitize ==
    /\ LogOnly
    /\ lOp # "none"
    /\ lm' = [lm EXCEPT !.RSSI = Sanitize(@)]
    /\ lOp' = "sanitize"
    /\ lSan' = TRUE
    /\ UNCHANGED <<lRec, lRaw>>

\* msg.Record()
LogDoRecord ==
    /\ LogOnly
    /\ lOp # "none"
    /\ lRec' = LogRecord(lm)
    /\ lOp' = "record"
    /\ UNCHANGED <<lm, lRaw, lSan>>

LogNext == LogNew \/ LogSanitize \/ LogDoRecord

-----------------------------------------------------------------------------
(* The specifications: one per component, the others at rest. *)

\* the state after package initialisation and NewParser, before any call
Init == ParseInit /\ DataInit /\ RegInit /\ FilterInit /\ LogInit

SpecParse ==
    /\ Init
    /\ [][ParseNext]_vars

SpecData ==
    /\ Init
    /\ [][DataNext]_vars

SpecReg ==
    /\ Init
    /\ [][RegNext]_vars

SpecFilter ==
    /\ Init
    /\ [][FilterNext]_vars

SpecLog ==
    /\ Init
    /\ [][LogNext]_vars

-----------------------------------------------------------------------------
(* Properties of scm.Parser.Parse, checked under SpecParse. *)

\* the meter ID field of a 12-byte packet, read from its bytes: bits 21..22
\* (two bits of byte 2) followed by bits 56..79 (bytes 7, 8, 9)
PacketID(p) == ((p[3] \div 2) % 4) * 16777216 + p[8] * 65536 + p[9] * 256 + p[10]

\* the BCH checksum of bytes 2..11 of a 12-byte packet is zero
ChecksumZero(p) == Len(p) = 12 /\ Checksum(SubSeq(p, 3, 12)) = 0

\* a packet Parse has to report: 12 bytes, checksum zero, meter ID not 0
Reportable(p) == ChecksumZero(p) /\ PacketID(p) # 0

\* C1 (checksum gate): every Message in Parse's output comes from a 12-byte
\* packet whose checksum over bytes 2..11 is zero, so none comes from a valid
\* packet with one payload bit inverted; a packet that fails the
\* checksum is dropped and the loop goes on: every packet consumed so far that is
\* reportable and seen for the first time has its Message, and Parse returns only
\* after the last packet.
ChecksumGate ==
    /\ \A k \in DOMAIN msgs : ChecksumZero(pkts[src[k]])
    /\ Len(src) = Len(msgs)
    /\ \A i \in 1..pi : pkts[i] \in OneBitMutations => i \notin Range(src)
    /\ \A i \in 1..pi :
        (Reportable(pkts[i]) /\ \A j \in 1..(i - 1) : pkts[j] # pkts[i])
            => i \in Range(src)
    /\ ppc = "returned" => pi = Len(pkts)

\* C1 witness: Parse returned, a 12-byte packet with a nonzero checksum was
\* dropped and a later packet was still reported.
ChecksumGateWitness ==
    /\ ppc = "returned"
    /\ \E i \in DOMAIN pkts, j \in DOMAIN pkts :
        /\ i < j
        /\ Len(pkts[i]) = 12
        /\ Checksum(SubSeq(pkts[i], 3, 12)) # 0
        /\ i \notin Range(src)
        /\ j \in Range(src)

\* C2 (deduplication): no two Messages of the output come from the same byte
\* sequence, each Message comes from the first offset its byte sequence was
\* detected at, the Messages are in detection order, and when Parse has returned
\* every reportable byte sequence has exactly one Message.
Deduplication ==
    /\ \A k1 \in DOMAIN src, k2 \in DOMAIN src :
        k1 # k2 => pkts[src[k1]] # pkts[src[k2]]
    /\ \A k \in DOMAIN src : \A j \in 1..(src[k] - 1) : pkts[j] # pkts[src[k]]
    /\ \A k1 \in DOMAIN src, k2 \in DOMAIN src : k1 < k2 => src[k1] < src[k2]
    /\ ppc = "returned" =>
        \A i \in DOMAIN pkts :
            Reportable(pkts[i]) =>
                Cardinality({k \in DOMAIN src : pkts[src[k]] = pkts[i]}) = 1

\* C2 witness: Parse returned after the slicer gave the same reportable byte
\* sequence at two offsets with another packet between them.
DeduplicationWitness ==
    /\ ppc = "returned"
    /\ \E i \in DOMAIN pkts, j \in DOMAIN pkts :
        /\ i + 1 < j
        /\ pkts[i] = pkts[j]
        /\ Reportable(pkts[i])
        /\ i \in Range(src)

\* C3 (sentinel gate): no Message of the output has meter ID 0, and the ID of
\* each Message is the ID field of the packet it comes from.
SentinelGate ==
    \A k \in DOMAIN msgs :
        /\ msgs[k].ID # 0
        /\ msgs[k].ID = PacketID(pkts[src[k]])

\* C3 witness: Parse returned, and a 12-byte packet with a valid checksum over a
\* payload that is not all zero but has meter ID 0 was left out.
SentinelGateWitness ==
    /\ ppc = "returned"
    /\ \E i \in DOMAIN pkts :
        /\ ChecksumZero(pkts[i])
        /\ PacketID(pkts[i]) = 0
        /\ \E b \in 3..12 : pkts[i][b] # 0
        /\ i \notin Range(src)
        /\ msgs # <<>>

-----------------------------------------------------------------------------
(* Properties of parse.Data, checked under SpecData. *)

\* C7 (round trip): NewDataFromBytes(b) gives 8*len(b) characters, each 0 or 1,
\* the bits of each byte most significant first, and keeps b as Bytes;
\* NewDataFromBits of that bit-string does not panic and gives Bytes equal to b.
DataRoundTrip ==
    /\ dOp = "bytes" =>
        /\ ~dOut.panicked
        /\ dOut.Bytes = dIn
        /\ Len(dOut.Bits) = 8 * Len(dIn)
        /\ \A i \in DOMAIN dIn : \A j \in 0..7 :
            /\ dOut.Bits[8 * (i - 1) + j + 1] \in {"0", "1"}
            /\ (dOut.Bits[8 * (i - 1) + j + 1] = "1") <=> (BitOf(dIn[i], 7 - j) = 1)
    /\ dOp = "roundtrip" =>
        /\ ~dOut.panicked
        /\ dOut.Bytes = dOrig
        /\ dOut.Bits = dIn
        /\ Len(dOut.Bits) = 8 * Len(dOut.Bytes)

\* C7 witness: a 12-byte SCM packet went through both constructors.
DataRoundTripWitness ==
    /\ dOp = "roundtrip"
    /\ Len(dOrig) = 12
    /\ dOut.Bytes = V1

\* C10 (as claimed): NewDataFromBits does not fail on a bit-string of any
\* length n, and gives ceil(n/8) bytes, the last one holding the remaining bits
\* padded with zero bits.
BitsTotal ==
    dOp = "bits" =>
        /\ ~dOut.panicked
        /\ Len(dOut.Bytes) = (Len(dIn) + 7) \div 8
        /\ \A i \in DOMAIN dOut.Bytes : \A j \in 0..7 :
            (BitOf(dOut.Bytes[i], 7 - j) = 1) <=>
                (8 * (i - 1) + j + 1 <= Len(dIn) /\ dIn[8 * (i - 1) + j + 1] = "1")

-----------------------------------------------------------------------------
(* Properties of the registry, checked under SpecReg. *)

Registers(h) == h.call.op = "Register"

Looksup(h) == h.call.op = "NewParser"

\* C4 (Register): a finished Register call panicked exactly when its constructor
\* was nil or its name was registered when it took the lock; a call that panicked
\* left the registry as it found it, a call that succeeded added its one binding
\* and changed no other; and every binding the registry ever held at the end of a
\* call it still holds (append-only, never nil).
RegisterContract ==
    /\ \A i \in DOMAIN hist :
        LET h == hist[i] IN
        Registers(h) =>
            /\ h.ret.kind \in {"ok", "panic"}
            /\ (h.ret.kind = "panic") <=>
                    (h.call.fn = NilFn \/ h.call.name \in DOMAIN h.pre)
            /\ h.ret.kind = "panic" => h.post = h.pre
            /\ h.ret.kind = "ok" =>
                /\ DOMAIN h.post = DOMAIN h.pre \cup {h.call.name}
                /\ h.post[h.call.name] = h.call.fn
                /\ \A n \in DOMAIN h.pre : h.post[n] = h.pre[n]
    /\ \A i \in DOMAIN hist : \A n \in DOMAIN hist[i].post :
        n \in DOMAIN parsers /\ parsers[n] = hist[i].post[n]
    /\ \A n \in DOMAIN parsers : parsers[n] # NilFn

\* C4 witness: a Register call with a nil constructor and a Register call naming
\* a registered name with another constructor have both panicked.
RegisterContractWitness ==
    /\ \E i \in DOMAIN hist :
        Registers(hist[i]) /\ hist[i].call.fn = NilFn /\ hist[i].ret.kind = "panic"
    /\ \E i \in DOMAIN hist :
        /\ Registers(hist[i])
        /\ hist[i].ret.kind = "panic"
        /\ hist[i].call.fn # NilFn
        /\ hist[i].call.name \in DOMAIN hist[i].pre
        /\ hist[i].pre[hist[i].call.name] # hist[i].call.fn

\* C5 (NewParser): a finished NewParser call returned a parser and no error
\* exactly when its name was registered, the parser being the registered
\* constructor applied to the call's symbolLength and decimation; for any other
\* name it returned an error naming that name; it never panicked and it left the
\* registry as it was.
NewParserContract ==
    \A i \in DOMAIN hist :
        LET h == hist[i] IN
        Looksup(h) =>
            /\ h.ret.kind \in {"parser", "error"}
            /\ (h.ret.kind = "parser") <=> (h.call.name \in DOMAIN h.pre)
            /\ h.ret.kind = "parser" =>
                /\ h.ret.parser.ctor = h.pre[h.call.name]
                /\ h.ret.parser.ctor # NilFn
                /\ h.ret.parser.symbolLength = h.call.args[1]
                /\ h.ret.parser.decimation = h.call.args[2]
            /\ h.ret.kind = "error" => h.call.name \in Range(h.ret.msg)
            /\ h.post = h.pre

\* C5 witness: one lookup of a registered name and one of an unknown name have
\* returned.
NewParserContractWitness ==
    /\ \E i \in DOMAIN hist : Looksup(hist[i]) /\ hist[i].ret.kind = "parser"
    /\ \E i \in DOMAIN hist :
        /\ Looksup(hist[i])
        /\ hist[i].ret.kind = "error"
        /\ hist[i].pre # EmptyMap

\* a goroutine is between Lock and the end of the deferred Unlock
InCritical(p) == gpc[p] \in {"body", "store", "unlock"}

\* C6 (mutual exclusion): at most one goroutine is inside the critical section,
\* and it is the one holding the mutex; the mutex is free when nobody is inside
\* (so it is released when a call ends, panicked or not); while a goroutine is
\* inside, the registry is what it found, or what it found plus its own binding;
\* and of the finished Register calls for one name with a constructor, exactly
\* one succeeded and every other panicked.
MutualExclusion ==
    /\ \A p \in Procs, q \in Procs : (InCritical(p) /\ InCritical(q)) => p = q
    /\ \A p \in Procs : InCritical(p) <=> parserMutex = p
    /\ (parserMutex = 0) <=> (\A p \in Procs : ~InCritical(p))
    /\ \A p \in Procs :
        InCritical(p) =>
            \/ parsers = gpre[p]
            \/ /\ gpc[p] = "unlock"
               /\ gret[p].kind = "ok"
               /\ parsers = [n \in DOMAIN gpre[p] \cup {gcall[p].name} |->
                                IF n = gcall[p].name THEN gcall[p].fn ELSE gpre[p][n]]
    /\ \A n \in Names :
        LET tries == {i \in DOMAIN hist :
                        /\ Registers(hist[i])
                        /\ hist[i].call.name = n
                        /\ hist[i].call.fn # NilFn}
        IN  tries # {} =>
                /\ Cardinality({i \in tries : hist[i].ret.kind = "ok"}) = 1
                /\ \A i \in tries : hist[i].ret.kind \in {"ok", "panic"}

\* C6 witness: two Register calls for one name, each begun before the other had
\* finished (so by two goroutines), have ended: one succeeded, one panicked.
MutualExclusionWitness ==
    \E i \in DOMAIN hist, j \in DOMAIN hist :
        /\ i < j
        /\ Registers(hist[i]) /\ Registers(hist[j])
        /\ hist[i].call.name = hist[j].call.name
        /\ hist[j].call.at < i
        /\ hist[i].ret.kind = "ok"
        /\ hist[j].ret.kind = "panic"
        /\ hist[j].call.fn # NilFn

-----------------------------------------------------------------------------
(* Properties of parse.FilterChain, checked under SpecFilter. *)

\* the filters of the chain that reject the message of the last Match
Rejecting == {i \in DOMAIN fc : ~Filter(fc[i], fMsg)}

\* the first of them
FirstRejecting == CHOOSE i \in Rejecting : \A j \in Rejecting : i <= j

\* C8 (Match): after Match(msg) the result is true exactly when the chain is
\* empty or every filter accepts msg; the filters invoked are those of the chain
\* in the order they were added, up to and including the first that rejects;
\* the chain {type is SCM, ID > 0} rejects an SCM message with ID 0; and a Match
\* step leaves the chain as it was.
MatchContractState ==
    fOp = "match" =>
        /\ fRet <=> (fc = <<>> \/ \A i \in DOMAIN fc : Filter(fc[i], fMsg))
        /\ fRet <=> Rejecting = {}
        /\ fInvoked = SubSeq(fc, 1, IF Rejecting = {} THEN Len(fc) ELSE FirstRejecting)
        /\ (fc = <<"TypeSCM", "IDPositive">> /\ fMsg.MsgType = "SCM" /\ fMsg.MeterID = 0)
                => ~fRet

MatchContract == [](MatchContractState) /\ [][fOp' = "match" => fc' = fc]_vars

\* C8 witness: a Match on a chain of three filters was rejected by the second
\* one, the third filter not invoked.
MatchContractWitness ==
    /\ fOp = "match"
    /\ Len(fc) = 3
    /\ ~fRet
    /\ Len(fInvoked) = 2
    /\ ~Filter(fc[3], fMsg)

-----------------------------------------------------------------------------
(* Properties of parse.LogMessage, checked under SpecLog. *)

NoiseFloorText == <<"-", "4", "8", ".", "1", "6", "5">>

MinusInfText == <<"-", "I", "n", "f">>

\* the fields of Record() are, in order: the time, the byte offset, the decoded
\* length, the signal strength, then the six fields of the wrapped message
RecordOrder ==
    /\ Len(lRec) = 10
    /\ lRec[1] = FormatRFC3339Nano(lm.Time)
    /\ lRec[2] = FormatInt(lm.Offset)
    /\ lRec[3] = FormatInt(lm.Length)
    /\ SubSeq(lRec, 5, 10) = SCMRecord(lm.Message)

\* C9 (as claimed): Record() gives the fields in the fixed order and its
\* signal-strength field is never a rendering of minus infinity: for a LogMessage
\* built with RSSI minus infinity it is the noise floor, whether or not the
\* caller called Sanitize.
RecordSanitizes ==
    lOp = "record" =>
        /\ RecordOrder
        /\ lRec[4] # MinusInfText
        /\ lRaw = NegInf => lRec[4] = NoiseFloorText

\* C9 (amended): Record() gives the fields in the fixed order and its
\* signal-strength field is the three-decimal text of the RSSI the LogMessage
\* holds: for a LogMessage built with RSSI minus infinity it is the noise floor
\* -48.165 when Sanitize was called before Record(), and -Inf when it was not.
RecordFormatsHeldRSSI ==
    lOp = "record" =>
        /\ RecordOrder
        /\ lRec[4] = FormatFloat3(lm.RSSI)
        /\ (lRaw = NegInf /\ lSan) => lRec[4] = NoiseFloorText
        /\ (lRaw = NegInf /\ ~lSan) => lRec[4] = MinusInfText
        /\ lRaw # NegInf => lRec[4] = FormatFloat3(lRaw)

\* C9 witness: Record() was called on a LogMessage built with RSSI minus infinity
\* after Sanitize, and gave the noise floor.
RecordFormatsHeldRSSIWitness ==
    /\ lOp = "record"
    /\ lRaw = NegInf
    /\ lSan
    /\ lRec[4] = NoiseFloorText

====
